---- MODULE Spec2Model ----
(***************************************************************************)
(* Model of anchor.py: the tool-calling loop run_agent, the dispatcher     *)
(* execute_tool and the six tools it dispatches to.                        *)
(*                                                                         *)
(* Strings are sequences of tokens.  A path is the sequence of its         *)
(* separators and name parts, every "/" and "." a token of its own         *)
(* ("/p/deploy.sh" is <<"/", "p", "/", "deploy", ".", "sh">>), and         *)
(* `x in s` of the source is containment of a contiguous token sequence.   *)
(***************************************************************************)
EXTENDS Integers, Sequences, FiniteSets, TLC

\* ---------------------------------------------------------------- Config

\* MAX_TURNS is 80 in the source; the model explores a shorter budget.
MAX_TURNS == 3

\* MAX_FILE_BYTES is 60_000 in the source; the model uses a shorter threshold,
\* so that files on both sides of it can be enumerated.
MAX_FILE_BYTES == 12

\* The rate-limit signals the model provider sends in one run, at most.
MaxRateLimits == 5

\* The lines of a secrets file handed to push_secrets on its own, at most.
MaxLines == 3

\* range(5) of the retry loop and the base of the backoff.
MaxAttempts == 5

BackoffBase == 10

SKIP_DIRS ==
  { <<".", "git">>, <<"__pycache__">>, <<"node_modules">>, <<".", "venv">>,
    <<"venv">>, <<"env">>, <<"dist">>, <<"build">>, <<".", "next">>,
    <<".", "nuxt">>, <<"target">>, <<"vendor">>, <<".", "tox">>,
    <<".", "mypy_cache">>, <<".", "pytest_cache">>, <<"coverage">>,
    <<"htmlcov">>, <<".", "turbo">>, <<".", "cargo">>, <<"pkg">>,
    <<".", "serverless">>, <<"cdk", ".", "out">>, <<".", "terraform">> }

SKIP_EXTENSIONS ==
  { <<".", "pyc">>, <<".", "pyo">>, <<".", "pyd">>, <<".", "so">>,
    <<".", "dylib">>, <<".", "dll">>, <<".", "exe">>, <<".", "jpg">>,
    <<".", "jpeg">>, <<".", "png">>, <<".", "gif">>, <<".", "ico">>,
    <<".", "svg">>, <<".", "webp">>, <<".", "avif">>, <<".", "mp4">>,
    <<".", "mp3">>, <<".", "wav">>, <<".", "ogg">>, <<".", "zip">>,
    <<".", "tar">>, <<".", "gz">>, <<".", "tgz">>, <<".", "pdf">>,
    <<".", "woff">>, <<".", "woff2">>, <<".", "ttf">>, <<".", "eot">>,
    <<".", "bin">>, <<".", "db">>, <<".", "sqlite">> }

OUTPUT_FILES ==
  { <<"Dockerfile">>, <<"deploy", ".", "sh">>, <<".", "gcloudignore">>,
    <<"DEPLOY_README", ".", "md">>, <<"deploy", ".", "yml">> }

\* ---------------------------------------------------------------- Strings

\* needle in s
Contains(s, needle) ==
  \E i \in 1..(Len(s) - Len(needle) + 1) :
     SubSeq(s, i, i + Len(needle) - 1) = needle

\* s.startswith(tok) for a one-token prefix
StartsWith(s, tok) == Len(s) > 0 /\ s[1] = tok

RECURSIVE Join(_, _)
\* sep.join(parts)
Join(parts, sep) ==
  IF Len(parts) = 0 THEN <<>>
  ELSE IF Len(parts) = 1 THEN parts[1]
  ELSE parts[1] \o sep \o Join(Tail(parts), sep)

\* Path(p).name : the part after the last separator
PathName(p) ==
  LET slashes == { i \in 1..Len(p) : p[i] = "/" }
      last == IF slashes = {} THEN 0
              ELSE CHOOSE i \in slashes : \A j \in slashes : j <= i
  IN SubSeq(p, last + 1, Len(p))

\* Path(p).suffix : the name from its last dot on, when that dot is neither
\* the first nor the last character of the name (".env" has no suffix)
PathSuffix(p) ==
  LET n == PathName(p)
      dots == { i \in 2..(Len(n) - 1) : n[i] = "." }
  IN IF dots = {} THEN <<>>
     ELSE SubSeq(n, CHOOSE i \in dots : \A j \in dots : j <= i, Len(n))

\* Path(p).parent
PathParent(p) ==
  LET n == PathName(p)
  IN IF Len(p) - Len(n) <= 1 THEN SubSeq(p, 1, Len(p) - Len(n))
     ELSE SubSeq(p, 1, Len(p) - Len(n) - 1)

\* Path(p).parts without the separators
PathParts(p) ==
  LET cut == <<0>> \o SelectSeq([i \in 1..Len(p) |-> IF p[i] = "/" THEN i ELSE 0],
                                LAMBDA i : i > 0) \o <<Len(p) + 1>>
  IN { SubSeq(p, cut[k] + 1, cut[k + 1] - 1) : k \in 1..(Len(cut) - 1) } \ {<<>>}

\* the directories above p, nearest last
Ancestors(p) ==
  { SubSeq(p, 1, IF i = 1 THEN 1 ELSE i - 1) : i \in { j \in 1..Len(p) : p[j] = "/" } }
    \ {p}

\* s.strip(chars) : drop the leading and trailing tokens that are in chars
Strip(s, chars) ==
  LET keep == { i \in 1..Len(s) : s[i] \notin chars }
  IN IF keep = {} THEN <<>>
     ELSE SubSeq(s, CHOOSE i \in keep : \A j \in keep : i <= j,
                    CHOOSE i \in keep : \A j \in keep : j <= i)

Whitespace == {" ", "\n", "\t"}

\* s[:n]
Prefix(s, n) == SubSeq(s, 1, IF Len(s) < n THEN Len(s) ELSE n)

\* The length in bytes of the UTF-8 encoding of a character: a token of a
\* text stands for one character, "e-acute" and "euro" for the characters
\* U+00E9 and U+20AC of two and of three bytes.
Width(c) == IF c = "euro" THEN 3 ELSE IF c = "e-acute" THEN 2 ELSE 1

\* len(s.encode("utf-8"))
Bytes(s) ==
  LET sum[i \in 0..Len(s)] == IF i = 0 THEN 0 ELSE sum[i - 1] + Width(s[i])
  IN sum[Len(s)]

\* s.splitlines()
SplitLines(s) ==
  LET nl == SelectSeq([i \in 1..Len(s) |-> IF s[i] = "\n" THEN i ELSE 0],
                      LAMBDA i : i > 0)
      cut == <<0>> \o nl \o (IF Len(s) > 0 /\ s[Len(s)] # "\n" THEN <<Len(s) + 1>> ELSE <<>>)
  IN [k \in 1..(Len(cut) - 1) |-> SubSeq(s, cut[k] + 1, cut[k + 1] - 1)]

\* ---------------------------------------------------------------- Paths of the model

ProjectDir == <<"/", "p">>

GitDir == <<"/", "p", "/", ".", "git">>

GitConfig == <<"/", "p", "/", ".", "git", "/", "config">>

EnvFile == <<"/", "p", "/", ".", "env", ".", "anchor">>

BigFile == <<"/", "p", "/", "big", ".", "txt">>

LogoFile == <<"/", "p", "/", "logo", ".", "png">>

DeployScript == <<"/", "p", "/", "deploy", ".", "sh">>

Dockerfile == <<"/", "p", "/", "Dockerfile">>

DotEnv == <<"/", "p", "/", ".", "env">>

SrcDir == <<"/", "p", "/", "src">>

SrcMain == <<"/", "p", "/", "src", "/", "main", ".", "py">>

SrcPyc == <<"/", "p", "/", "src", "/", "app", ".", "pyc">>

BuildDir == <<"/", "p", "/", "src", "/", "build">>

BuildOut == <<"/", "p", "/", "src", "/", "build", "/", "out", ".", "txt">>

CicdKey == <<"/", "p", "/", "cicd-key", ".", "json">>

\* A Dockerfile in a directory whose name has "deploy.sh" in it.
DemoDockerfile == <<"/", "p", "/", "deploy", ".", "sh", "-demo", "/", "Dockerfile">>

\* The paths of the model in the order sorted() gives Path objects
\* (by parts, code point order: "." < "D" < "a" < "b" < "d" < "l" < "m" < "s").
PathOrder ==
  << ProjectDir, DotEnv, EnvFile, GitDir, GitConfig, Dockerfile, BigFile, DeployScript,
     LogoFile, SrcDir, SrcPyc, BuildDir, BuildOut, SrcMain >>

\* The secrets file the user filled in: A=s1 / B= / # note
EnvText == << "A", "=", "s1", "\n", "B", "=", "\n", "#", " ", "note", "\n" >>

\* The text of a file of more than MAX_FILE_BYTES bytes.
BigText == [i \in 1..(MAX_FILE_BYTES + 1) |-> "x"]

\* ---------------------------------------------------------------- Filesystem

\* fs.files maps the path of every regular file to [size, text, exec];
\* fs.dirs is the set of directories.
FsInit ==
  [ files |-> (EnvFile :> [size |-> Bytes(EnvText), text |-> EnvText, exec |-> FALSE])
           @@ (GitConfig :> [size |-> 1, text |-> <<"[core]">>, exec |-> FALSE])
           @@ (BigFile :> [size |-> Bytes(BigText), text |-> BigText, exec |-> FALSE])
           @@ (LogoFile :> [size |-> 4, text |-> <<"PNG">>, exec |-> FALSE]),
    dirs |-> { <<"/">>, ProjectDir, GitDir } ]

IsFile(fs, p) == p \in DOMAIN fs.files

IsDir(fs, p) == p \in fs.dirs

Exists(fs, p) == IsFile(fs, p) \/ IsDir(fs, p)

\* What a tool call comes to: it returns text, raises, or exits the process.
\* ops lists the secret-store operations it made.
ReturnOps(text, fs, ops) == [kind |-> "return", text |-> text, fs |-> fs, ops |-> ops]

Return(text, fs) == ReturnOps(text, fs, <<>>)

Raise(exc, fs) == [kind |-> "raise", text |-> <<exc>>, fs |-> fs, ops |-> <<>>]

Exit(fs) == [kind |-> "exit", text |-> <<>>, fs |-> fs, ops |-> <<>>]

\* ---------------------------------------------------------------- Tools
\* Every tool takes the outcome oc of its environment: oc.fail says that the
\* operating system refuses the tool's I/O operation (OSError).

DotAllowList ==
  { <<".", "env">>, <<".", "env", ".", "example">>, <<".", "env", ".", "sample">>,
    <<".", "gitignore">> }

\* item.relative_to(p)
RelativeTo(item, p) ==
  IF p = <<"/">> THEN SubSeq(item, 2, Len(item))
  ELSE SubSeq(item, Len(p) + 2, Len(item))

\* p.rglob("*") / p.iterdir(), sorted
Under(fs, p, recursive) ==
  SelectSeq(PathOrder,
            LAMBDA q : /\ Exists(fs, q)
                       /\ q # p
                       /\ IF recursive THEN p \in Ancestors(q) ELSE PathParent(q) = p)

ListingLine(fs, item, rel) ==
  <<IF IsDir(fs, item) THEN "DIR " ELSE "FILE", "  ">> \o rel

list_directory(path, recursive, fs, oc) ==
  IF ~Exists(fs, path) THEN
    Return(<<"ERROR:", "Path does not exist:">> \o path, fs)
  ELSE IF ~IsDir(fs, path) THEN
    Return(<<"ERROR:", "Not a directory:">> \o path, fs)
  ELSE IF recursive THEN
    LET kept == SelectSeq(Under(fs, path, TRUE),
                  LAMBDA item :
                    /\ PathParts(item) \cap SKIP_DIRS = {}
                    /\ ~(StartsWith(PathName(item), ".") /\ PathName(item) \notin DotAllowList)
                    /\ PathSuffix(item) \notin SKIP_EXTENSIONS)
        results == [i \in 1..Len(kept) |-> ListingLine(fs, kept[i], RelativeTo(kept[i], path))]
    IN Return(IF Len(results) > 0 THEN Join(results, <<"\n">>) ELSE <<"(empty)">>, fs)
  ELSE IF oc.fail THEN
    Raise("OSError", fs)
  ELSE
    LET kept == SelectSeq(Under(fs, path, FALSE), LAMBDA item : PathName(item) \notin SKIP_DIRS)
        results == [i \in 1..Len(kept) |-> ListingLine(fs, kept[i], PathName(kept[i]))]
    IN Return(IF Len(results) > 0 THEN Join(results, <<"\n">>) ELSE <<"(empty)">>, fs)

read_file(path, fs, oc) ==
  IF ~Exists(fs, path) THEN
    Return(<<"ERROR:", "File does not exist:">> \o path, fs)
  ELSE IF ~IsFile(fs, path) THEN
    Return(<<"ERROR:", "Not a file:">> \o path, fs)
  ELSE IF PathSuffix(path) \in SKIP_EXTENSIONS THEN
    Return(<<"SKIPPED:", "Binary/media file">> \o PathSuffix(path), fs)
  ELSE IF fs.files[path].size > MAX_FILE_BYTES THEN
    IF oc.fail THEN Raise("OSError", fs)
    ELSE Return(<<"TRUNCATED:", "File too large", "\n", "\n">>
                  \o Prefix(fs.files[path].text, MAX_FILE_BYTES), fs)
  ELSE IF oc.fail THEN
    Return(<<"ERROR reading file:", "OSError">>, fs)
  ELSE
    Return(fs.files[path].text, fs)

write_file(path, content, fs, oc) ==
  IF \/ \E d \in Ancestors(path) : IsFile(fs, d)
     \/ IsDir(fs, path)
  THEN Return(<<"ERROR writing file:", "OSError">>, fs)
  ELSE
    LET made == [fs EXCEPT !.dirs = @ \cup Ancestors(path)]
        isNew == ~IsFile(fs, path)
        file == [size |-> Bytes(content), text |-> content,
                 exec |-> \/ PathName(path) = <<"deploy", ".", "sh">>
                          \/ (~isNew /\ fs.files[path].exec)]
    IN IF oc.fail THEN Return(<<"ERROR writing file:", "OSError">>, made)
       ELSE Return(<<"OK: Written">> \o path \o <<ToString(Len(content)), "bytes">>,
                   [made EXCEPT !.files = (path :> file) @@ @])

\* What the shell makes of a command: `cat <path>` prints the file, any
\* other command prints nothing and succeeds.
Shell(command, fs) ==
  IF StartsWith(command, "cat") THEN
    LET path == SubSeq(command, 3, Len(command))
    IN IF IsFile(fs, path)
       THEN [stdout |-> fs.files[path].text, stderr |-> <<>>, returncode |-> 0]
       ELSE [stdout |-> <<>>, stderr |-> <<"cat:", "No such file or directory", "\n">>,
             returncode |-> 1]
  ELSE [stdout |-> <<>>, stderr |-> <<>>, returncode |-> 0]

\* oc.alt : the command runs into the 600 s timeout
run_command(command, interactive, fs, oc) ==
  LET result == Shell(command, fs)
  IN IF oc.fail THEN Return(<<"ERROR:", "OSError">>, fs)
     ELSE IF interactive THEN
       Return(<<"Exited with code", ToString(result.returncode)>>, fs)
     ELSE IF oc.alt THEN
       Return(<<"ERROR:", "Command timed out after 10 minutes">>, fs)
     ELSE
       LET out == Strip(result.stdout, Whitespace)
           err == Strip(result.stderr, Whitespace)
           c1 == IF err # <<>> THEN out \o <<"\n", "[stderr]">> \o err ELSE out
           combined == IF result.returncode # 0
                       THEN c1 \o <<"\n", "[exit code]", ToString(result.returncode)>>
                       ELSE c1
       IN Return(IF combined # <<>> THEN combined ELSE <<"(no output)">>, fs)

\* What the user types at the prompt.
UserAnswer == <<" ", "my-project", " ">>

\* oc.alt : the user interrupts the prompt (KeyboardInterrupt, EOFError)
ask_user(question, fs, oc) ==
  IF oc.alt THEN Exit(fs) ELSE Return(Strip(UserAnswer, Whitespace), fs)

\* A line of the secrets file as the loop sees it: kind is "ignore" (blank,
\* comment, no "="), "skip" (empty key or value) or "secret".
Line(kind, key, value) == [kind |-> kind, key |-> key, value |-> value]

\* key, _, value = line.partition("="), both stripped, the value of its quotes
Partition(line, eq) ==
  << Strip(SubSeq(line, 1, eq - 1), Whitespace),
     Strip(Strip(Strip(SubSeq(line, eq + 1, Len(line)), Whitespace), {"\""}), {"'"}) >>

\* Mutant of KeyValue: the key is the whole assignment, value included.
KeyValue_WholeLine(kv) ==
  Line(IF kv[1] = <<>> \/ kv[2] = <<>> THEN "skip" ELSE "secret",
       kv[1] \o <<"=">> \o kv[2], kv[2])

KeyValue(kv) ==
  Line(IF kv[1] = <<>> \/ kv[2] = <<>> THEN "skip" ELSE "secret", kv[1], kv[2])

ParseStripped(line, eqs) ==
  IF line = <<>> \/ StartsWith(line, "#") \/ eqs = {}
  THEN Line("ignore", <<>>, <<>>)
  ELSE KeyValue(Partition(line, CHOOSE i \in eqs : \A j \in eqs : i <= j))

Equals(line) == { i \in 1..Len(line) : line[i] = "=" }

ParseLine(raw) ==
  ParseStripped(Strip(raw, Whitespace), Equals(Strip(raw, Whitespace)))

\* The outcomes of the secret store for one key: create succeeds; create
\* fails and versions add succeeds; both fail; subprocess.run raises on
\* create; create fails and subprocess.run raises on versions add.
StoreOutcomes == {"created", "added", "failed", "raised", "add_raised"}

StoreOp(op, l) == [op |-> op, key |-> l.key, value |-> l.value]

\* Mutant of PushLine: versions add is run after every create.
PushLine_AlwaysAdd(l, i, store, acc) ==
  IF l.kind = "ignore" THEN acc
  ELSE IF l.kind = "skip" THEN
    [acc EXCEPT !.errors = Append(@, <<"SKIPPED">> \o l.key \o <<": empty value">>)]
  ELSE IF store[i] = "created" THEN
    [acc EXCEPT !.pushed = Append(@, l.key),
                !.ops = @ \o <<StoreOp("create", l), StoreOp("add", l)>>]
  ELSE IF store[i] = "added" THEN
    [acc EXCEPT !.pushed = Append(@, l.key),
                !.ops = @ \o <<StoreOp("create", l), StoreOp("add", l)>>]
  ELSE IF store[i] = "failed" THEN
    [acc EXCEPT !.errors = Append(@, <<"ERROR on">> \o l.key \o <<": ", "stderr">>),
                !.ops = @ \o <<StoreOp("create", l), StoreOp("add", l)>>]
  ELSE IF store[i] = "add_raised" THEN
    [acc EXCEPT !.errors = Append(@, <<"ERROR on">> \o l.key \o <<": ", "OSError">>),
                !.ops = @ \o <<StoreOp("create", l), StoreOp("add", l)>>]
  ELSE
    [acc EXCEPT !.errors = Append(@, <<"ERROR on">> \o l.key \o <<": ", "OSError">>),
                !.ops = Append(@, StoreOp("create", l))]

\* One pass of the loop body for the parsed line l, which is line i of the
\* file: acc = [pushed, errors, ops].
PushLine(l, i, store, acc) ==
  IF l.kind = "ignore" THEN acc
  ELSE IF l.kind = "skip" THEN
    [acc EXCEPT !.errors = Append(@, <<"SKIPPED">> \o l.key \o <<": empty value">>)]
  ELSE IF store[i] = "created" THEN
    [acc EXCEPT !.pushed = Append(@, l.key), !.ops = Append(@, StoreOp("create", l))]
  ELSE IF store[i] = "added" THEN
    [acc EXCEPT !.pushed = Append(@, l.key),
                !.ops = @ \o <<StoreOp("create", l), StoreOp("add", l)>>]
  ELSE IF store[i] = "failed" THEN
    [acc EXCEPT !.errors = Append(@, <<"ERROR on">> \o l.key \o <<": ", "stderr">>),
                !.ops = @ \o <<StoreOp("create", l), StoreOp("add", l)>>]
  ELSE IF store[i] = "add_raised" THEN
    [acc EXCEPT !.errors = Append(@, <<"ERROR on">> \o l.key \o <<": ", "OSError">>),
                !.ops = @ \o <<StoreOp("create", l), StoreOp("add", l)>>]
  ELSE
    [acc EXCEPT !.errors = Append(@, <<"ERROR on">> \o l.key \o <<": ", "OSError">>),
                !.ops = Append(@, StoreOp("create", l))]

\* Mutant of PushLines: the loop is left at the first error or skip.
PushLines_StopAtError(lines, store) ==
  LET after[i \in 0..Len(lines)] ==
        IF i = 0 THEN [pushed |-> <<>>, errors |-> <<>>, ops |-> <<>>]
        ELSE IF after[i - 1].errors # <<>> THEN after[i - 1]
        ELSE PushLine(ParseLine(lines[i]), i, store, after[i - 1])
  IN after[Len(lines)]

\* The loop over the lines: the accumulator after the last line.
PushLines(lines, store) ==
  LET after[i \in 0..Len(lines)] ==
        IF i = 0 THEN [pushed |-> <<>>, errors |-> <<>>, ops |-> <<>>]
        ELSE PushLine(ParseLine(lines[i]), i, store, after[i - 1])
  IN after[Len(lines)]

\* ",".join(f"{k}={k}:latest" for k in secrets_pushed)
SetSecrets(pushed) ==
  Join([k \in 1..Len(pushed) |-> pushed[k] \o <<"=">> \o pushed[k] \o <<":latest">>], <<",">>)

\* "\n".join(lines_out)
Summary(pushed, errors, env_file) ==
  Join(<< <<"Pushed:">> \o (IF Len(pushed) > 0 THEN Join(pushed, <<", ">>) ELSE <<"none">>) >>
       \o (IF Len(errors) > 0 THEN << <<"Errors:">> \o Join(errors, <<"; ">>) >> ELSE <<>>)
       \o << <<"File kept at:">> \o env_file >>
       \o << <<"Use in gcloud run deploy:", "--set-secrets=">> \o SetSecrets(pushed) >>,
       <<"\n">>)

PushResult(r, env_file, fs) == ReturnOps(Summary(r.pushed, r.errors, env_file), fs, r.ops)

\* oc.store[i] : the outcome of the secret store for the key of line i
push_secrets(env_file, project_id, fs, oc) ==
  IF ~Exists(fs, env_file) THEN
    Return(<<"ERROR:">> \o env_file \o <<"not found">>, fs)
  ELSE IF ~IsFile(fs, env_file) \/ oc.fail THEN
    Return(<<"ERROR reading">> \o env_file \o <<": ", "OSError">>, fs)
  ELSE
    PushResult(PushLines(SplitLines(fs.files[env_file].text), oc.store), env_file, fs)

\* The lines of a secrets file that reach the secret store.
SecretLines(fs, env_file) ==
  IF IsFile(fs, env_file)
  THEN LET lines == SplitLines(fs.files[env_file].text)
       IN { i \in 1..Len(lines) : ParseLine(lines[i]).kind = "secret" }
  ELSE {}

\* ---------------------------------------------------------------- Dispatch

TOOL_MAP ==
  {"list_directory", "read_file", "write_file", "run_command", "ask_user", "push_secrets"}

\* The parameters of each handler: those without and those with a default.
Required(name) ==
  CASE name = "list_directory" -> {"path"}
    [] name = "read_file" -> {"path"}
    [] name = "write_file" -> {"path", "content"}
    [] name = "run_command" -> {"command"}
    [] name = "ask_user" -> {"question"}
    [] name = "push_secrets" -> {"env_file", "project_id"}

Optional(name) ==
  CASE name = "list_directory" -> {"recursive"}
    [] name = "run_command" -> {"interactive"}
    [] OTHER -> {}

\* fn(**args) binds: args is a mapping whose keys are parameters of fn and
\* cover the required ones; otherwise the call raises TypeError.
Binds(name, args) ==
  /\ args.dict
  /\ Required(name) \subseteq DOMAIN args.kv
  /\ DOMAIN args.kv \subseteq Required(name) \cup Optional(name)

\* args.get(key, default) on a mapping
Get(args, key, default) == IF key \in DOMAIN args.kv THEN args.kv[key] ELSE default

\* The truth value of a JSON value: <<"true">> and <<"false">> stand for the
\* JSON booleans, every other value is a string.
Truthy(v) == v # <<>> /\ v # <<"false">>

execute_tool(name, args, fs, oc) ==
  IF name \notin TOOL_MAP THEN
    Return(<<"ERROR:", "Unknown tool", name>>, fs)
  ELSE IF ~Binds(name, args) THEN
    Return(<<"ERROR:", "Bad arguments for", name, "TypeError">>, fs)
  ELSE
    CASE name = "list_directory" ->
           list_directory(args.kv.path, Truthy(Get(args, "recursive", <<"false">>)), fs, oc)
      [] name = "read_file" -> read_file(args.kv.path, fs, oc)
      [] name = "write_file" -> write_file(args.kv.path, args.kv.content, fs, oc)
      [] name = "run_command" ->
           run_command(args.kv.command, Truthy(Get(args, "interactive", <<"false">>)), fs, oc)
      [] name = "ask_user" -> ask_user(args.kv.question, fs, oc)
      [] name = "push_secrets" -> push_secrets(args.kv.env_file, args.kv.project_id, fs, oc)

\* json.loads(tc.function.arguments), with the loop's fallback to {} when
\* the text is not JSON: the text of an object gives a mapping, the text of
\* any other JSON value gives a value that is not a mapping.
JsonLoads(arguments) ==
  IF arguments.json = "object" THEN [dict |-> TRUE, kv |-> arguments.kv]
  ELSE IF arguments.json = "invalid" THEN [dict |-> TRUE, kv |-> <<>>]
  ELSE [dict |-> FALSE, kv |-> <<>>]

\* ---------------------------------------------------------------- The model's replies

Object(kv) == [json |-> "object", kv |-> kv]

\* Text that is JSON but not an object, e.g. "[]".
ArrayText == [json |-> "array", kv |-> <<>>]

\* Text that is not JSON.
InvalidText == [json |-> "invalid", kv |-> <<>>]

Call(id, name, arguments) == [id |-> id, name |-> name, arguments |-> arguments]

Reply(content, tool_calls) == [content |-> content, tool_calls |-> tool_calls]

\* The replies the model chooses from on turn t.  The provider gives every
\* tool call an id of its own: <<t, k>> for the k-th call of turn t.
Replies(t) ==
  { Reply(<<"All", " ", "done">>, <<>>),
    Reply(<<>>, << Call(<<t, 1>>, "write_file",
                        Object(("path" :> DeployScript) @@ ("content" :> <<"#!/bin/sh">>))),
                   Call(<<t, 2>>, "read_file", Object("path" :> LogoFile)) >>),
    Reply(<<"Hm">>, << Call(<<t, 1>>, "write_file", Object("path" :> DeployScript)),
                       Call(<<t, 2>>, "frobnicate", InvalidText),
                       Call(<<t, 3>>, "read_file", InvalidText) >>),
    Reply(<<>>, << Call(<<t, 1>>, "run_command", Object("command" :> (<<"cat", " ">> \o EnvFile))),
                   Call(<<t, 2>>, "read_file", ArrayText) >>),
    Reply(<<>>, << Call(<<t, 1>>, "list_directory", Object("path" :> ProjectDir)),
                   Call(<<t, 2>>, "read_file", Object("path" :> BigFile)) >>),
    Reply(<<>>, << Call(<<t, 1>>, "ask_user", Object("question" :> <<"Project ID?">>)),
                   Call(<<t, 2>>, "push_secrets",
                        Object(("env_file" :> EnvFile) @@ ("project_id" :> <<"proj">>))) >>),
    Reply(<<>>, << Call(<<t, 1>>, "read_file", Object("path" :> EnvFile)) >>) }

\* The outcomes of the environment of one tool call.
Outcomes(name, args, fs) ==
  [ fail : BOOLEAN,
    alt : IF name \in {"run_command", "ask_user"} THEN BOOLEAN ELSE {FALSE},
    store : IF name = "push_secrets" /\ args.dict /\ "env_file" \in DOMAIN args.kv
            THEN [SecretLines(fs, args.kv.env_file) -> StoreOutcomes]
            ELSE {<<>>} ]

\* ---------------------------------------------------------------- run_agent

VARIABLES
  messages,       \* the conversation
  files_written,  \* the recorded output artifacts
  turn,           \* the loop variable of the turn loop
  attempt,        \* the loop variable of the retry loop (0 outside the loop,
                  \* where it is dead until the next turn rebinds it)
  pc,             \* where run_agent is: "model" (about to call the model),
                  \* "tool" (about to dispatch calls[tc]), "append" (a result
                  \* is to be appended), "done", "aborted", "raised", "exited"
  calls,          \* msg.tool_calls of the current turn
  tc,             \* the index of the current tool call in calls
  result,         \* the result of execute_tool that is to be appended
  fs,             \* the filesystem
  attempts,       \* history: the model calls made in the run
  rate_limits,    \* history: the rate-limit signals received in the run
  waits,          \* history: the sleeps of the current turn's retry loop
  last_error,     \* history: the last exception raised in the run
  started,        \* history: the tool calls of this turn whose execution began
  secret_values,  \* history: the values push_secrets read from a secrets file
  probe           \* a tool called on its own: the input drawn for it, the
                  \* outcome of its environment and what it came to

vars ==
  << messages, files_written, turn, attempt, pc, calls, tc, result, fs,
     attempts, rate_limits, waits, last_error, started, secret_values, probe >>

Message(role, content, tool_calls, tool_call_id) ==
  [role |-> role, content |-> content, tool_calls |-> tool_calls,
   tool_call_id |-> tool_call_id]

\* build_prompt(project_path)
Prompt == <<"You are Anchor", "scan the project at">> \o ProjectDir

\* Mutant of Nudge: the nudge is appended as an assistant message.
Nudge_AsAssistant ==
  Message("assistant",
          <<"Continue. Do not summarize or plan - use tools to execute the next phase now.">>,
          <<>>, <<>>)

Nudge ==
  Message("user",
          <<"Continue. Do not summarize or plan - use tools to execute the next phase now.">>,
          <<>>, <<>>)

\* The entry appended for a reply; absent content and tool_calls are empty.
AssistantEntry(msg) == Message("assistant", msg.content, msg.tool_calls, <<>>)

\* Mutant of ToolMessage: the entry is built without the call's id.
ToolMessage_NoId(id, text) == Message("tool", text, <<>>, <<>>)

ToolMessage(id, text) == Message("tool", text, <<>>, id)

\* Mutant of AppendResult: messages[-1] = ... instead of append.
AppendResult_Overwrite(msgs, id, text) ==
  [msgs EXCEPT ![Len(msgs)] = ToolMessage(id, text)]

\* Mutant of AppendResult: messages.insert(-1, ...) instead of append.
AppendResult_Insert(msgs, id, text) ==
  SubSeq(msgs, 1, Len(msgs) - 1) \o <<ToolMessage(id, text), msgs[Len(msgs)]>>

\* messages.append({"role": "tool", "tool_call_id": tc.id, "content": result})
AppendResult(msgs, id, text) == Append(msgs, ToolMessage(id, text))

\* Mutant of Backoff: a linear schedule, (attempt + 1) * 10.
Backoff_Linear(a) == (a + 1) * BackoffBase

\* wait = 2 ** attempt * 10
Backoff(a) == (2 ^ a) * BackoffBase

\* Mutant of Caught: a bare `except Exception`.
Caught_Any(err) == TRUE

\* except litellm.RateLimitError
Caught(err) == err = "RateLimitError"

\* Mutant of LastAttempt: the retry loop makes one more attempt.
LastAttempt_OneMore(a) == a = MaxAttempts

\* if attempt == 4: raise e
LastAttempt(a) == a = MaxAttempts - 1

\* Mutant of MoreTurns: range(1, MAX_TURNS).
MoreTurns_OneLess(t) == t + 1 < MAX_TURNS

\* Mutant of MoreTurns: range(1, MAX_TURNS + 2).
MoreTurns_OneMore(t) == t <= MAX_TURNS

\* range(1, MAX_TURNS + 1) has a value after t
MoreTurns(t) == t < MAX_TURNS

\* Mutant of deploy_done: all(...) instead of any(...).
deploy_done_All(fw) ==
  \A i \in 1..Len(fw) :
     \/ Contains(fw[i], <<"cicd-key", ".", "json">>)
     \/ Contains(fw[i], <<"deploy", ".", "sh">>)

\* any("cicd-key.json" in f or "deploy.sh" in f for f in files_written)
deploy_done(fw) ==
  \E i \in 1..Len(fw) :
     \/ Contains(fw[i], <<"cicd-key", ".", "json">>)
     \/ Contains(fw[i], <<"deploy", ".", "sh">>)

\* The logging branch of a tool call calls args.get, which a value that is
\* not a mapping does not have.
LogRaises(name, args) ==
  /\ name \in {"list_directory", "read_file", "write_file", "push_secrets"}
  /\ ~args.dict

\* Mutant of Recorded: every write_file call is recorded, whatever the name.
Recorded_AnyName(fw, name, args) ==
  IF name = "write_file" THEN Append(fw, Get(args, "path", <<>>)) ELSE fw

\* files_written after the logging branch of a tool call
Recorded(fw, name, args) ==
  IF name = "write_file" /\ PathName(Get(args, "path", <<>>)) \in OUTPUT_FILES
  THEN Append(fw, Get(args, "path", <<>>))
  ELSE fw

\* No tool is called on its own.
NoProbe == [tool |-> "none", family |-> "none", input |-> <<>>]

\* run_agent before its first turn.
Fresh ==
  /\ messages = << Message("user", Prompt, <<>>, <<>>) >>
  /\ files_written = <<>>
  /\ turn = 1
  /\ attempt = 0
  /\ pc = "model"
  /\ calls = <<>>
  /\ tc = 0
  /\ result = <<>>
  /\ attempts = 0
  /\ rate_limits = 0
  /\ waits = <<>>
  /\ last_error = "none"
  /\ started = <<>>
  /\ secret_values = {}

Init ==
  /\ Fresh
  /\ fs = FsInit
  /\ probe = NoProbe

\* The turn loop goes to its next iteration, or ends in its else branch.
NextTurn ==
  /\ IF MoreTurns(turn)
     THEN turn' = turn + 1 /\ pc' = "model"
     ELSE turn' = turn /\ pc' = "aborted"
  /\ attempt' = 0
  /\ calls' = <<>>
  /\ tc' = 0
  /\ started' = <<>>

\* litellm.completion returns msg: the entry is appended; a reply without
\* tool calls ends the run or is nudged.
ModelReturns(msg) ==
  /\ pc = "model"
  /\ attempts' = attempts + 1
  /\ waits' = <<>>
  /\ last_error' = "none"
  /\ IF msg.tool_calls = <<>> THEN
       IF ~deploy_done(files_written) THEN
         /\ messages' = messages \o <<AssistantEntry(msg), Nudge>>
         /\ NextTurn
       ELSE
         /\ messages' = Append(messages, AssistantEntry(msg))
         /\ pc' = "done"
         /\ attempt' = 0
         /\ UNCHANGED <<turn, calls, tc, started>>
     ELSE
       /\ messages' = Append(messages, AssistantEntry(msg))
       /\ pc' = "tool"
       /\ calls' = msg.tool_calls
       /\ tc' = 1
       /\ attempt' = 0
       /\ UNCHANGED <<turn, started>>
  /\ UNCHANGED <<files_written, result, fs, rate_limits, secret_values, probe>>

\* litellm.completion raises err.
ModelRaises(err) ==
  /\ pc = "model"
  /\ attempts' = attempts + 1
  /\ last_error' = err
  /\ IF Caught(err) THEN
       /\ waits' = Append(waits, Backoff(attempt))
       /\ IF LastAttempt(attempt)
          THEN pc' = "raised" /\ attempt' = attempt
          ELSE pc' = "model" /\ attempt' = attempt + 1
     ELSE
       /\ pc' = "raised"
       /\ UNCHANGED <<waits, attempt>>
  /\ UNCHANGED <<messages, files_written, turn, calls, tc, result, fs, started,
                 secret_values, probe>>

RateLimited ==
  /\ rate_limits < MaxRateLimits
  /\ rate_limits' = rate_limits + 1
  /\ ModelRaises("RateLimitError")

ModelCallFails ==
  /\ UNCHANGED rate_limits
  /\ ModelRaises("APIError")

\* Mutant of Executed: the loop catches SystemExit and takes the empty text
\* as the result of the call.
Executed_ExitCaught(r) ==
  /\ fs' = r.fs
  /\ secret_values' = secret_values \cup { r.ops[i].value : i \in 1..Len(r.ops) }
  /\ IF r.kind = "raise" THEN
       pc' = "raised" /\ result' = result /\ last_error' = r.text[1]
     ELSE
       /\ pc' = "append"
       /\ result' = r.text
       /\ last_error' = (IF r.kind = "exit" THEN "SystemExit" ELSE last_error)

\* execute_tool has come to r: the result is kept for the append, or the
\* exception or exit ends the run.
Executed(r) ==
  /\ fs' = r.fs
  /\ secret_values' = secret_values \cup { r.ops[i].value : i \in 1..Len(r.ops) }
  /\ IF r.kind = "return" THEN
       pc' = "append" /\ result' = r.text /\ last_error' = last_error
     ELSE IF r.kind = "raise" THEN
       pc' = "raised" /\ result' = result /\ last_error' = r.text[1]
     ELSE
       pc' = "exited" /\ result' = result /\ last_error' = "SystemExit"

\* The tool call name(args): log and record, execute.
Dispatch(name, args) ==
  IF LogRaises(name, args) THEN
    /\ pc' = "raised"
    /\ last_error' = "AttributeError"
    /\ UNCHANGED <<files_written, result, fs, secret_values>>
  ELSE
    /\ files_written' = Recorded(files_written, name, args)
    /\ \E oc \in Outcomes(name, args, fs) : Executed(execute_tool(name, args, fs, oc))

\* One tool call of the message: parse, log and record, execute.
ToolStart ==
  /\ pc = "tool"
  /\ started' = Append(started, calls[tc].id)
  /\ Dispatch(calls[tc].name, JsonLoads(calls[tc].arguments))
  /\ UNCHANGED <<messages, turn, attempt, calls, tc, attempts, rate_limits, waits,
                 probe>>

\* The result is appended; the loop goes to the next tool call or turn.
ToolAppend ==
  /\ pc = "append"
  /\ messages' = AppendResult(messages, calls[tc].id, result)
  /\ result' = <<>>
  /\ IF tc < Len(calls)
     THEN tc' = tc + 1 /\ pc' = "tool" /\ UNCHANGED <<turn, attempt, calls, started>>
     ELSE NextTurn
  /\ UNCHANGED <<files_written, fs, attempts, rate_limits, waits, last_error,
                 secret_values, probe>>

Next ==
  \/ \E msg \in Replies(turn) : ModelReturns(msg)
  \/ RateLimited
  \/ ModelCallFails
  \/ ToolStart
  \/ ToolAppend

Spec == Init /\ [][Next]_vars

\* ---------------------------------------------------------------- A model that writes
\* A third specification runs the loop with a model that writes files and
\* is never rate-limited.

\* The replies of that model on turn t: writes to names inside and outside
\* OUTPUT_FILES, a write without content, one without path, one whose
\* arguments are not an object, and a write under a directory whose name has
\* "deploy.sh" in it.
WriteReplies(t) ==
  { Reply(<<"All", " ", "done">>, <<>>),
    Reply(<<>>, << Call(<<t, 1>>, "write_file",
                        Object(("path" :> Dockerfile) @@ ("content" :> <<"FROM python">>))),
                   Call(<<t, 2>>, "write_file",
                        Object(("path" :> SrcMain) @@ ("content" :> <<"pass">>))),
                   Call(<<t, 3>>, "read_file", Object("path" :> Dockerfile)) >>),
    Reply(<<>>, << Call(<<t, 1>>, "write_file",
                        Object(("path" :> CicdKey) @@ ("content" :> <<"{}">>))),
                   Call(<<t, 2>>, "write_file", Object("path" :> DeployScript)) >>),
    Reply(<<>>, << Call(<<t, 1>>, "write_file", Object("content" :> <<"pass">>)),
                   Call(<<t, 2>>, "write_file", ArrayText) >>),
    Reply(<<>>, << Call(<<t, 1>>, "write_file",
                        Object(("path" :> DemoDockerfile)
                                 @@ ("content" :> <<"FROM python">>))) >>) }

WriteNext ==
  \/ \E msg \in WriteReplies(turn) : ModelReturns(msg)
  \/ ToolStart
  \/ ToolAppend

WriteSpec == Init /\ [][WriteNext]_vars

\* ---------------------------------------------------------------- A run that takes every step
\* A fourth specification runs the loop with any number of rate-limit errors
\* (the retry loop itself bounds them), and with every model call and every
\* tool call coming back: a step that can be taken is taken.

\* The replies of the model on turn t: it stops, or asks for the tool that
\* writes the deploy script, or for the one that asks the user.
TermReplies(t) ==
  { Reply(<<"All", " ", "done">>, <<>>),
    Reply(<<>>, << Call(<<t, 1>>, "write_file",
                        Object(("path" :> DeployScript) @@ ("content" :> <<"#!/bin/sh">>))) >>),
    Reply(<<>>, << Call(<<t, 1>>, "ask_user", Object("question" :> <<"Project?">>)) >>) }

\* litellm.completion raises RateLimitError, as often as it likes.
RateLimitedAgain ==
  /\ UNCHANGED rate_limits
  /\ ModelRaises("RateLimitError")

TermNext ==
  \/ \E msg \in TermReplies(turn) : ModelReturns(msg)
  \/ RateLimitedAgain
  \/ ModelCallFails
  \/ ToolStart
  \/ ToolAppend

TermSpec == Init /\ [][TermNext]_vars /\ WF_vars(TermNext)

\* ---------------------------------------------------------------- The tools on their own
\* A second specification calls one tool once, outside the loop, on an
\* input drawn from a bounded set, and keeps the input and what the tool
\* came to in probe.

\* The lines a secrets file is made of.  Each carries what it is: a secret
\* with its key and value, a key with an empty value ("skip"), or a line
\* that is no assignment ("ignore").
EnvLines ==
  { [text |-> <<"A", "=", "s1">>, kind |-> "secret", key |-> <<"A">>, value |-> <<"s1">>],
    [text |-> <<" ", "C", " ", "=", " ", "\"", "s3", "\"", " ">>, kind |-> "secret",
     key |-> <<"C">>, value |-> <<"s3">>],
    [text |-> <<"B", "=">>, kind |-> "skip", key |-> <<"B">>, value |-> <<>>],
    [text |-> <<"=", "s1">>, kind |-> "skip", key |-> <<>>, value |-> <<"s1">>],
    [text |-> <<"#", " ", "note">>, kind |-> "ignore", key |-> <<>>, value |-> <<>>],
    [text |-> <<"export">>, kind |-> "ignore", key |-> <<>>, value |-> <<>>],
    [text |-> <<>>, kind |-> "ignore", key |-> <<>>, value |-> <<>>] }

\* The file A=.. / B= / # note / C=.. with two secrets, a key without value
\* and a comment.
ScenarioFile ==
  << [text |-> <<"A", "=", "s1">>, kind |-> "secret", key |-> <<"A">>, value |-> <<"s1">>],
     [text |-> <<"B", "=">>, kind |-> "skip", key |-> <<"B">>, value |-> <<>>],
     [text |-> <<"#", " ", "note">>, kind |-> "ignore", key |-> <<>>, value |-> <<>>],
     [text |-> <<" ", "C", " ", "=", " ", "\"", "s3", "\"", " ">>, kind |-> "secret",
      key |-> <<"C">>, value |-> <<"s3">>] >>

\* The secrets files: every file of up to MaxLines lines, and ScenarioFile.
EnvInputs == UNION { [1..n -> EnvLines] : n \in 0..MaxLines } \cup {ScenarioFile}

\* The text of a secrets file.
EnvTextOf(lines) == Join([i \in 1..Len(lines) |-> lines[i].text], <<"\n">>)

\* A project that holds the secrets file and nothing else.
EnvFs(text) ==
  [ files |-> (EnvFile :> [size |-> Bytes(text), text |-> text, exec |-> FALSE]),
    dirs |-> { <<"/">>, ProjectDir } ]

\* Other values for the secrets: the first, the second, or both are changed.
Revaluations ==
  { ("s1" :> "t1") @@ ("s3" :> "s3"),
    ("s1" :> "s1") @@ ("s3" :> "t3"),
    ("s1" :> "t1") @@ ("s3" :> "t3") }

\* The text with the values changed.
Revalued(text, map) ==
  [i \in 1..Len(text) |-> IF text[i] \in DOMAIN map THEN map[text[i]] ELSE text[i]]

\* The text push_secrets returns for the file with its values changed, when
\* the secret store does the same.
TwinText(text, map, oc) ==
  push_secrets(EnvFile, <<"proj">>, EnvFs(Revalued(text, map)), oc).text

PushProbe(input, oc, out) ==
  [tool |-> "push_secrets", family |-> "env", input |-> input, oc |-> oc, out |-> out,
   twins |-> [map \in Revaluations |-> TwinText(EnvTextOf(input), map, oc)]]

\* push_secrets(EnvFile, "proj") on the drawn secrets file.
PushSecretsAlone ==
  /\ probe.tool = "none"
  /\ probe.family = "env"
  /\ \E oc \in Outcomes("push_secrets",
                        [dict |-> TRUE, kv |-> ("env_file" :> EnvFile)], fs) :
        /\ oc.fail => \A i \in DOMAIN oc.store : oc.store[i] = "created"
        /\ probe' = PushProbe(probe.input, oc, push_secrets(EnvFile, <<"proj">>, fs, oc))
        /\ fs' = probe'.out.fs
  /\ UNCHANGED <<messages, files_written, turn, attempt, pc, calls, tc, result,
                 attempts, rate_limits, waits, last_error, started, secret_values>>

\* The files a project tree is made of.  hidden says that the entry is, or
\* lies under, a directory of SKIP_DIRS, has an extension of SKIP_EXTENSIONS,
\* or is a dot-file outside the allow-list.
TreeFiles ==
  { [path |-> DotEnv, hidden |-> FALSE],
    [path |-> EnvFile, hidden |-> TRUE],
    [path |-> GitConfig, hidden |-> TRUE],
    [path |-> Dockerfile, hidden |-> FALSE],
    [path |-> LogoFile, hidden |-> TRUE],
    [path |-> SrcMain, hidden |-> FALSE],
    [path |-> SrcPyc, hidden |-> TRUE],
    [path |-> BuildOut, hidden |-> TRUE] }

\* The directories the files lie in.
TreeDirs ==
  { [path |-> GitDir, hidden |-> TRUE],
    [path |-> SrcDir, hidden |-> FALSE],
    [path |-> BuildDir, hidden |-> TRUE] }

\* The project trees: every set of the files, with the directories they need.
TreeInputs == SUBSET TreeFiles

TreeFs(files) ==
  [ files |-> [q \in { f.path : f \in files } |-> [size |-> 1, text |-> <<"x">>, exec |-> FALSE]],
    dirs |-> { <<"/">>, ProjectDir } \cup UNION { Ancestors(f.path) : f \in files } ]

\* The paths list_directory is called with: the project, a directory of
\* it, a directory of SKIP_DIRS, a file, a path that may not exist.
ListPaths == { ProjectDir, SrcDir, GitDir, Dockerfile }

ListProbe(input, path, recursive, oc, out) ==
  [tool |-> "list_directory", family |-> "tree", input |-> input, path |-> path,
   recursive |-> recursive, oc |-> oc, out |-> out]

\* list_directory(path, recursive) on the drawn tree.
ListDirectoryAlone ==
  /\ probe.tool = "none"
  /\ probe.family = "tree"
  /\ \E path \in ListPaths, recursive \in BOOLEAN :
        \E oc \in Outcomes("list_directory", [dict |-> TRUE, kv |-> ("path" :> path)], fs) :
          /\ probe' = ListProbe(probe.input, path, recursive, oc,
                                list_directory(path, recursive, fs, oc))
          /\ fs' = probe'.out.fs
  /\ UNCHANGED <<messages, files_written, turn, attempt, pc, calls, tc, result,
                 attempts, rate_limits, waits, last_error, started, secret_values>>

\* The characters a text file is made of: one of one byte, one of three.
FileChars == {"a", "euro"}

\* The text files: up to one character more than MAX_FILE_BYTES.
FileInputs == UNION { [1..n -> FileChars] : n \in 0..(MAX_FILE_BYTES + 1) }

\* A project that holds the text file and nothing else.
FileFs(text) ==
  [ files |-> (BigFile :> [size |-> Bytes(text), text |-> text, exec |-> FALSE]),
    dirs |-> { <<"/">>, ProjectDir } ]

ReadProbe(input, oc, out) ==
  [tool |-> "read_file", family |-> "file", input |-> input, oc |-> oc, out |-> out]

\* read_file(BigFile) on the drawn text file.
ReadFileAlone ==
  /\ probe.tool = "none"
  /\ probe.family = "file"
  /\ \E oc \in Outcomes("read_file", [dict |-> TRUE, kv |-> ("path" :> BigFile)], fs) :
        /\ probe' = ReadProbe(probe.input, oc, read_file(BigFile, fs, oc))
        /\ fs' = probe'.out.fs
  /\ UNCHANGED <<messages, files_written, turn, attempt, pc, calls, tc, result,
                 attempts, rate_limits, waits, last_error, started, secret_values>>

ToolInit ==
  /\ Fresh
  /\ \/ \E input \in EnvInputs :
          /\ probe = [tool |-> "none", family |-> "env", input |-> input]
          /\ fs = EnvFs(EnvTextOf(input))
     \/ \E input \in TreeInputs :
          /\ probe = [tool |-> "none", family |-> "tree", input |-> input]
          /\ fs = TreeFs(input)
     \/ \E input \in FileInputs :
          /\ probe = [tool |-> "none", family |-> "file", input |-> input]
          /\ fs = FileFs(input)

ToolNext ==
  \/ PushSecretsAlone
  \/ ListDirectoryAlone
  \/ ReadFileAlone

ToolSpec == ToolInit /\ [][ToolNext]_vars

\* ---------------------------------------------------------------- Properties

AssistantIdx == { i \in 1..Len(messages) : messages[i].role = "assistant" }

NumAssistant == Cardinality(AssistantIdx)

\* The index of the next assistant message after i, or the end of the log.
NextAssistant(i) ==
  LET later == { j \in AssistantIdx : j > i }
  IN IF later = {} THEN Len(messages) + 1
     ELSE CHOOSE j \in later : \A h \in later : j <= h

\* The tool messages that carry the id.
Answers(id) ==
  { j \in 1..Len(messages) : messages[j].role = "tool" /\ messages[j].tool_call_id = id }

\* C1: whenever the model is about to be called, every tool call of every
\* assistant message of the conversation has exactly one tool message with
\* its id, and that message lies after its assistant message and before the
\* next assistant message.
C1_ToolCallsAnswered ==
  pc = "model" =>
    \A i \in AssistantIdx : \A k \in 1..Len(messages[i].tool_calls) :
      /\ Cardinality(Answers(messages[i].tool_calls[k].id)) = 1
      /\ \A j \in Answers(messages[i].tool_calls[k].id) : i < j /\ j < NextAssistant(i)

\* A model call with an earlier assistant message of several tool calls.
C1_Witness ==
  /\ pc = "model"
  /\ \E i \in AssistantIdx : Len(messages[i].tool_calls) >= 2

\* The values of the arguments of a tool call, when its text is an object.
ArgValues(c) ==
  IF c.arguments.json = "object"
  THEN { c.arguments.kv[k] : k \in DOMAIN c.arguments.kv }
  ELSE {}

\* C2 (as claimed): once push_secrets has read the secrets file, none of its
\* values is part of the content of a message or of the arguments of a tool
\* call of the conversation.  The code does not keep this: read_file and
\* run_command return the text of the secrets file like that of any file.
C2_NoSecretInConversation ==
  \A v \in secret_values : \A i \in 1..Len(messages) :
    /\ ~Contains(messages[i].content, v)
    /\ \A k \in 1..Len(messages[i].tool_calls) :
         \A a \in ArgValues(messages[i].tool_calls[k]) : ~Contains(a, v)

\* A tool call the dispatcher has to reject: an unregistered name, an
\* arguments text that is not a JSON object, or a missing required parameter.
BadCall(c) ==
  \/ c.name \notin TOOL_MAP
  \/ c.arguments.json # "object"
  \/ ~(Required(c.name) \subseteq DOMAIN c.arguments.kv)

\* C3 (as claimed): a tool call that has to be rejected never raises out of
\* the loop; it gets a result that starts with "ERROR:" and is appended with
\* the call's id.  The code raises AttributeError in its logging branch when
\* the arguments are JSON but not an object.
C3_BadCallsGetErrorResult ==
  /\ (pc \in {"append", "raised", "exited"} /\ tc > 0 /\ BadCall(calls[tc]))
       => (pc = "append" /\ StartsWith(result, "ERROR:"))
  /\ \A i \in AssistantIdx : \A k \in 1..Len(messages[i].tool_calls) :
       BadCall(messages[i].tool_calls[k]) =>
         \A j \in Answers(messages[i].tool_calls[k].id) :
            StartsWith(messages[j].content, "ERROR:")

\* C4 (as claimed): no failure inside a tool escapes as an exception, so a
\* run never ends by an exception raised while a tool was executing.  The
\* code lets the OSError of p.iterdir() in list_directory and of
\* p.read_text() in the TRUNCATED branch of read_file through.
C4_ToolFailuresAreText ==
  ~(/\ pc = "raised"
    /\ tc > 0
    /\ ~LogRaises(calls[tc].name, JsonLoads(calls[tc].arguments)))

BackoffSchedule == <<10, 20, 40, 80, 160>>

\* C5: the sleeps of one turn's retry loop are 10, 20, 40, 80, 160 seconds in
\* this order; the fifth rate-limit error is raised out of run_agent, and
\* the turn makes no sixth model call.
C5_BackoffSchedule ==
  /\ Len(waits) <= Len(BackoffSchedule)
  /\ waits = SubSeq(BackoffSchedule, 1, Len(waits))
  /\ (Len(waits) = Len(BackoffSchedule) => pc = "raised" /\ last_error = "RateLimitError")
  /\ (pc = "model" => attempt = Len(waits) /\ attempt < Len(BackoffSchedule))

\* Five rate-limit errors in one turn.
C5_Witness == pc = "raised" /\ waits = BackoffSchedule

\* C6: a model-call error that is not a rate-limit error ends run_agent at
\* once: that step makes no sleep, appends no message and touches neither the
\* filesystem nor the recorded artifacts, and no step follows it.
C6_FatalErrorPropagates ==
  [][ /\ (pc = "raised" => UNCHANGED vars)
      /\ (last_error' = "APIError" /\ attempts' # attempts)
           => /\ pc' = "raised"
              /\ attempts' = attempts + 1
              /\ UNCHANGED <<messages, waits, fs, files_written, started, turn>> ]_vars

\* A run ended by such an error.
C6_Witness == pc = "raised" /\ last_error = "APIError"

AllTurnsUseTools == \A i \in AssistantIdx : messages[i].tool_calls # <<>>

\* C7: at most MAX_TURNS assistant messages are appended and the model is
\* called only while fewer than MAX_TURNS turns were made; without rate-limit
\* errors the run makes at most MAX_TURNS model calls; and a run whose every
\* reply requests tools, when its loop ends, ends Aborted after exactly
\* MAX_TURNS model calls.
C7_TurnBudget ==
  /\ NumAssistant <= MAX_TURNS
  /\ (pc = "model" => NumAssistant = turn - 1 /\ turn <= MAX_TURNS)
  /\ (rate_limits = 0 => attempts <= MAX_TURNS)
  /\ (pc = "aborted" => NumAssistant = MAX_TURNS)
  /\ (rate_limits = 0 /\ AllTurnsUseTools /\ pc \in {"done", "aborted"})
       => (pc = "aborted" /\ attempts = MAX_TURNS)
  /\ (NumAssistant = MAX_TURNS /\ AllTurnsUseTools /\ pc \notin {"tool", "append", "raised", "exited"})
       => pc = "aborted"

\* The budget used up by a model that asks for tools on every turn.
C7_Witness ==
  /\ pc = "aborted"
  /\ rate_limits = 0
  /\ AllTurnsUseTools
  /\ attempts = MAX_TURNS

\* The names of the recorded artifacts.
Produced == { PathName(files_written[i]) : i \in 1..Len(files_written) }

CriterionMet ==
  \E i \in 1..Len(files_written) :
     \/ Contains(files_written[i], <<"deploy", ".", "sh">>)
     \/ Contains(files_written[i], <<"cicd-key", ".", "json">>)

\* The step appends an assistant message without tool calls.
StopsWithoutCalls ==
  /\ pc = "model"
  /\ Len(messages') > Len(messages)
  /\ messages'[Len(messages) + 1].role = "assistant"
  /\ messages'[Len(messages) + 1].tool_calls = <<>>

C9_DoneOnlyAfterWrite ==
  pc = "done" =>
    /\ messages[Len(messages)].role = "assistant"
    /\ messages[Len(messages)].tool_calls = <<>>
    /\ \E i \in 1..Len(files_written) :
          /\ \/ Contains(files_written[i], <<"deploy", ".", "sh">>)
             \/ Contains(files_written[i], <<"cicd-key", ".", "json">>)
          /\ IsFile(fs, files_written[i])

\* The messages between assistant message i and the next one.
Following(i) == NextAssistant(i) - i - 1

\* C10: the results of the tool calls c1..cn of an assistant message are
\* appended right after it in the order of the calls; the execution of a call
\* begins only when the results of all calls before it are appended; and the
\* model is called again only when all n results are there.
C10_ResultsInCallOrder ==
  /\ \A i \in AssistantIdx :
       messages[i].tool_calls # <<>> =>
         /\ Following(i) <= Len(messages[i].tool_calls)
         /\ \A k \in 1..Following(i) :
              /\ messages[i + k].role = "tool"
              /\ messages[i + k].tool_call_id = messages[i].tool_calls[k].id
         /\ (NextAssistant(i) <= Len(messages) \/ pc \in {"model", "aborted"})
              => Following(i) = Len(messages[i].tool_calls)
  /\ (pc \in {"tool", "append"} \/ (pc \in {"raised", "exited"} /\ tc > 0)) =>
       /\ Len(started) = (IF pc = "tool" THEN tc - 1 ELSE tc)
       /\ \A k \in 1..Len(started) : started[k] = calls[k].id
       /\ \E i \in AssistantIdx :
            /\ NextAssistant(i) = Len(messages) + 1
            /\ messages[i].tool_calls = calls
            /\ Following(i) = tc - 1

\* The second call of a message has run, after the first result was appended.
C10_Witness == pc = "append" /\ tc = 2 /\ Len(started) = 2

\* C11: an interrupted ask_user prompt ends the process at once (sys.exit(1)
\* reaches the top of the program): the interrupted call gets no tool message,
\* the calls after it in the same assistant message are never started, and
\* no step, in particular no model call, follows.
C11_InterruptExits ==
  /\ [](last_error = "SystemExit" => pc = "exited")
  /\ [](pc = "exited" =>
         /\ calls[tc].name = "ask_user"
         /\ Answers(calls[tc].id) = {}
         /\ Len(started) = tc
         /\ \A k \in (tc + 1)..Len(calls) : Answers(calls[k].id) = {}
         /\ \E i \in AssistantIdx :
              /\ NextAssistant(i) = Len(messages) + 1
              /\ messages[i].tool_calls = calls
              /\ Following(i) = tc - 1)
  /\ [][pc = "exited" => UNCHANGED vars]_vars

\* The prompt is interrupted while another call of the message is waiting.
C11_Witness == pc = "exited" /\ last_error = "SystemExit" /\ tc < Len(calls)

\* The assistant messages before position j that hold a tool call with the id.
Askers(j, id) ==
  { i \in AssistantIdx :
      i < j /\ \E k \in 1..Len(messages[i].tool_calls) : messages[i].tool_calls[k].id = id }

\* C15: the conversation starts as the single user message of the prompt;
\* every step leaves the messages it finds in place and unchanged and at most
\* appends to them; only the loop appends (the step after a model reply and
\* the step that appends a tool result, never the execution of a tool); a
\* reply is appended as an assistant message first; and every tool message
\* comes after the assistant message that holds its call.
C15_AppendOnly ==
  /\ messages = << Message("user", Prompt, <<>>, <<>>) >>
  /\ [][ /\ Len(messages') >= Len(messages)
         /\ SubSeq(messages', 1, Len(messages)) = messages
         /\ (messages' # messages => pc \in {"model", "append"})
         /\ (messages' # messages /\ pc = "model")
              => messages'[Len(messages) + 1].role = "assistant"
         /\ (messages' # messages /\ pc = "append")
              => /\ Len(messages') = Len(messages) + 1
                 /\ messages'[Len(messages')].role = "tool" ]_vars
  /\ [](\A j \in 1..Len(messages) :
          messages[j].role = "tool" => Askers(j, messages[j].tool_call_id) # {})

\* A conversation of several turns with tool results and a nudge.
C15_Witness ==
  /\ NumAssistant >= 2
  /\ \E j \in 1..Len(messages) : messages[j].role = "tool"
  /\ \E j \in 2..Len(messages) : messages[j] = Nudge

\* The step ends the turn without failing: a reply without tool calls, or
\* the append of the result of the last tool call.
EndsTurn == StopsWithoutCalls \/ (pc = "append" /\ tc = Len(calls))

\* C18: the run ends Aborted ("Reached max turns") exactly when a step ends
\* turn MAX_TURNS without reaching Done, and Done exactly when a reply without
\* tool calls meets the completion criterion, on turn MAX_TURNS too; a last
\* turn that ends in a Nudge ends Aborted; a run that is Done or Aborted
\* stays so, so that no run is both.
C18_DoneXorAborted ==
  /\ [][ /\ EndsTurn =>
              /\ pc' = "done" <=> (StopsWithoutCalls /\ CriterionMet)
              /\ pc' = "aborted" <=> (turn = MAX_TURNS /\ ~(StopsWithoutCalls /\ CriterionMet))
         /\ ~EndsTurn => (pc' \in {"done", "aborted"} => pc' = pc)
         /\ pc \in {"done", "aborted"} => UNCHANGED vars ]_vars
  /\ [](pc = "aborted" =>
          /\ NumAssistant = MAX_TURNS
          /\ \/ messages[Len(messages)] = Nudge
             \/ messages[Len(messages)].role = "tool")
  /\ [](pc = "done" => messages[Len(messages)].role = "assistant")

\* Done on the last turn of the budget, after a nudge.
C18_Witness ==
  /\ pc = "done"
  /\ turn = MAX_TURNS
  /\ NumAssistant = MAX_TURNS
  /\ \E j \in 1..Len(messages) : messages[j] = Nudge

\* The position of the last assistant message.
LastAssistant == CHOOSE i \in AssistantIdx : \A j \in AssistantIdx : j <= i

\* The loop is inside the tool calls of the last assistant message.
InsideCalls == pc \in {"tool", "append"} \/ (pc \in {"raised", "exited"} /\ tc > 0)

\* The tool calls of message j the loop has dispatched.
DispatchedOf(j) ==
  IF messages[j].role # "assistant" THEN <<>>
  ELSE IF j = LastAssistant /\ InsideCalls
       THEN SubSeq(messages[j].tool_calls, 1, Len(started))
       ELSE messages[j].tool_calls

\* What a tool call has to record: the path argument of a write_file call
\* whose file name is in OUTPUT_FILES.
Target(c) ==
  IF /\ c.name = "write_file"
     /\ c.arguments.json = "object"
     /\ "path" \in DOMAIN c.arguments.kv
     /\ PathName(c.arguments.kv.path) \in OUTPUT_FILES
  THEN <<c.arguments.kv.path>>
  ELSE <<>>

TargetsOf(cs) ==
  LET t[k \in 0..Len(cs)] == IF k = 0 THEN <<>> ELSE t[k - 1] \o Target(cs[k])
  IN t[Len(cs)]

\* The targets of all tool calls dispatched so far, in the order of dispatch.
Targets ==
  LET t[j \in 0..Len(messages)] ==
        IF j = 0 THEN <<>> ELSE t[j - 1] \o TargetsOf(DispatchedOf(j))
  IN t[Len(messages)]

\* C19: files_written is the list of the path arguments of the write_file
\* calls dispatched so far whose file name is in OUTPUT_FILES, in the order
\* of dispatch: no other call adds to it, and no step removes or changes an
\* entry.
C19_RecordsWhitelistedWrites ==
  /\ [](files_written = Targets)
  /\ [][ /\ Len(files_written') >= Len(files_written)
         /\ SubSeq(files_written', 1, Len(files_written)) = files_written ]_vars

\* Two artifacts recorded, after writes to names outside OUTPUT_FILES.
C19_Witness ==
  /\ Len(files_written) >= 2
  /\ \E j \in AssistantIdx : \E k \in 1..Len(DispatchedOf(j)) :
        /\ DispatchedOf(j)[k].name = "write_file"
        /\ DispatchedOf(j)[k].arguments.json = "object"
        /\ "path" \in DOMAIN DispatchedOf(j)[k].arguments.kv
        /\ Target(DispatchedOf(j)[k]) = <<>>

\* C20: every step of the retry loop that catches a rate-limit error,
\* announces the retry and sleeps leaves the loop at the model call of the
\* same turn, with the next attempt to make.
C20_SleepThenRetry ==
  [][ Len(waits') = Len(waits) + 1
        => /\ pc' = "model"
           /\ turn' = turn
           /\ attempt' = attempt + 1 ]_vars

\* The message at position i > 1 may stand where it stands.
WellPlaced(i) ==
  IF messages[i].role = "assistant" THEN
    /\ messages[i - 1].role # "assistant"
    /\ IF messages[i].tool_calls = <<>>
       THEN IF i = Len(messages) THEN pc = "done" ELSE messages[i + 1] = Nudge
       ELSE IF i = LastAssistant /\ InsideCalls
            THEN Following(i) <= Len(messages[i].tool_calls)
            ELSE Following(i) >= 1 /\ Following(i) <= Len(messages[i].tool_calls)
  ELSE IF messages[i].role = "tool" THEN
    /\ messages[i - 1].role \in {"assistant", "tool"}
    /\ messages[i - 1].role = "assistant" => messages[i - 1].tool_calls # <<>>
  ELSE
    /\ messages[i] = Nudge
    /\ messages[i - 1].role = "assistant"
    /\ messages[i - 1].tool_calls = <<>>

\* C23: the conversation is the initial user message followed by the turns:
\* an assistant message with tool calls and then its tool messages (at
\* least one, once the turn is over), or an assistant message without tool
\* calls and then the nudge, or nothing when the run is Done.  No assistant
\* message follows an assistant message, no tool message follows a user
\* message, and there is at most one assistant message per turn.
C23_ConversationShape ==
  /\ Len(messages) >= 1
  /\ messages[1] = Message("user", Prompt, <<>>, <<>>)
  /\ \A i \in 2..Len(messages) : WellPlaced(i)
  /\ NumAssistant <= turn
  /\ pc = "done" => messages[Len(messages)].role = "assistant"

\* A conversation with a nudged turn, a turn with several tool messages, and
\* a turn after them.
C23_Witness ==
  /\ NumAssistant >= 3
  /\ \E i \in 2..Len(messages) : messages[i] = Nudge
  /\ \E i \in AssistantIdx : i # LastAssistant /\ Following(i) >= 2

\* The result of a call that execute_tool rejected.
Rejected(r) ==
  /\ Len(r) >= 2
  /\ r[1] = "ERROR:"
  /\ r[2] \in {"Unknown tool", "Bad arguments for"}

\* C24 (as claimed): a tool call that execute_tool rejects changes nothing
\* but the conversation, which gets the one tool message with the error: the
\* step that dispatches it leaves the filesystem, the recorded artifacts and
\* with them the completion criterion as they were.  The code records the
\* path of a write_file call before it calls execute_tool.
C24_RejectedCallChangesNothing ==
  [][ /\ (pc = "tool" /\ pc' = "append" /\ Rejected(result'))
           => /\ UNCHANGED <<messages, files_written, fs, secret_values, turn>>
              /\ deploy_done(files_written') = deploy_done(files_written)
      /\ (pc = "append" /\ Rejected(result))
           => /\ messages' = Append(messages, ToolMessage(calls[tc].id, result))
              /\ UNCHANGED <<files_written, fs, secret_values>> ]_vars

\* The call is a write_file call for a file of the name.
WritesName(c, name) ==
  /\ c.name = "write_file"
  /\ c.arguments.json = "object"
  /\ "path" \in DOMAIN c.arguments.kv
  /\ PathName(c.arguments.kv.path) = name

\* C25 (as claimed): the loop is Done only if a write_file call dispatched
\* before was for a file named deploy.sh; writes of the other files of
\* OUTPUT_FILES do not meet the completion criterion, wherever they go.  The
\* code looks for "deploy.sh" in the whole path.
C25_DoneNeedsDeployScript ==
  pc = "done" =>
    \E j \in AssistantIdx : \E k \in 1..Len(DispatchedOf(j)) :
       WritesName(DispatchedOf(j)[k], <<"deploy", ".", "sh">>)

\* run_agent has ended: Done, Aborted, or an exception or sys.exit left it.
Ended == pc \in {"done", "aborted", "raised", "exited"}

\* C22: when every model call and every tool call returns or raises,
\* run_agent ends, whatever the model replies and however often it is
\* rate-limited; it makes at most MAX_TURNS turns and at most
\* MaxAttempts * MAX_TURNS model calls, and none after it has ended.
C22_Terminates ==
  /\ <>Ended
  /\ [](turn <= MAX_TURNS /\ NumAssistant <= MAX_TURNS)
  /\ [](attempts <= MaxAttempts * MAX_TURNS)
  /\ [][Ended => UNCHANGED vars]_vars

\* Every turn but the last is rate-limited four times, the last five times.
C22_Witness ==
  /\ pc = "raised"
  /\ last_error = "RateLimitError"
  /\ turn = MAX_TURNS
  /\ attempts = MaxAttempts * MAX_TURNS

\* The lines of the drawn secrets file that are of the kind, by position.
LinesOfKind(lines, kind) == { i \in 1..Len(lines) : lines[i].kind = kind }

\* The lines at the positions, in the order of the file.
Picked(lines, idx) ==
  LET at == SelectSeq([i \in 1..Len(lines) |-> i], LAMBDA i : i \in idx)
  IN [k \in 1..Len(at) |-> lines[at[k]]]

\* The secrets the store has taken: create or versions add succeeded.
Stored(lines, store) ==
  { i \in LinesOfKind(lines, "secret") : store[i] \in {"created", "added"} }

KeysOf(picked) == [k \in 1..Len(picked) |-> picked[k].key]

References(keys) ==
  Join([k \in 1..Len(keys) |-> keys[k] \o <<"=">> \o keys[k] \o <<":latest">>], <<",">>)

Occurrences(text, tok) == Cardinality({ i \in 1..Len(text) : text[i] = tok })

\* What the secret store was asked to create: key and value, in order.
Creates(ops) ==
  LET c == SelectSeq(ops, LAMBDA o : o.op = "create")
  IN [k \in 1..Len(c) |-> <<c[k].key, c[k].value>>]

Assignments(picked) == [k \in 1..Len(picked) |-> <<picked[k].key, picked[k].value>>]

FirstLine(text) == SplitLines(text)[1]

LastLine(text) == SplitLines(text)[Len(SplitLines(text))]

PushedOf(lines, text, store, ops) ==
  /\ Creates(ops) = Assignments(Picked(lines, LinesOfKind(lines, "secret")))
  /\ Occurrences(text, "SKIPPED") = Cardinality(LinesOfKind(lines, "skip"))
  /\ \A i \in LinesOfKind(lines, "skip") :
        Contains(text, <<"SKIPPED">> \o lines[i].key \o <<": empty value">>)
  /\ Occurrences(text, "ERROR on")
       = Cardinality(LinesOfKind(lines, "secret") \ Stored(lines, store))
  /\ FirstLine(text)
       = <<"Pushed:">> \o (IF Stored(lines, store) = {} THEN <<"none">>
                           ELSE Join(KeysOf(Picked(lines, Stored(lines, store))), <<", ">>))
  /\ LastLine(text)
       = <<"Use in gcloud run deploy:", "--set-secrets=">>
           \o References(KeysOf(Picked(lines, Stored(lines, store))))

\* The create command for the key returned a failure.
CreateFailed(o) == o \in {"added", "failed", "add_raised"}

\* The operations on the secret store that the lines call for, in the order
\* of the file: a create for every secret, and a versions add after a create
\* that failed.
OpsFor(lines, store) ==
  LET o[i \in 0..Len(lines)] ==
        IF i = 0 THEN <<>>
        ELSE IF lines[i].kind # "secret" THEN o[i - 1]
        ELSE o[i - 1]
               \o << [op |-> "create", key |-> lines[i].key, value |-> lines[i].value] >>
               \o (IF CreateFailed(store[i])
                   THEN << [op |-> "add", key |-> lines[i].key, value |-> lines[i].value] >>
                   ELSE <<>>)
  IN o[Len(lines)]

\* The operations made for the secret on line i.
OpsOfLine(lines, store, ops, i) ==
  SubSeq(ops, Len(OpsFor(SubSeq(lines, 1, i - 1), store)) + 1,
              Len(OpsFor(SubSeq(lines, 1, i), store)))

\* C21: push_secrets runs, for every line with a key and a non-empty value,
\* create first and versions add if and only if create returned a failure,
\* so at most two operations per line; the key is listed as pushed if and
\* only if create or versions add succeeded, and otherwise the line leaves
\* exactly one "ERROR on" entry (also when subprocess.run raises).
C21_AddIffCreateFailed ==
  (probe.tool = "push_secrets" /\ ~probe.oc.fail) =>
    /\ probe.out.ops = OpsFor(probe.input, probe.oc.store)
    /\ \A i \in LinesOfKind(probe.input, "secret") :
          Len(OpsOfLine(probe.input, probe.oc.store, probe.out.ops, i)) <= 2
    /\ FirstLine(probe.out.text)
         = <<"Pushed:">>
             \o (IF Stored(probe.input, probe.oc.store) = {} THEN <<"none">>
                 ELSE Join(KeysOf(Picked(probe.input, Stored(probe.input, probe.oc.store))),
                           <<", ">>))
    /\ Occurrences(probe.out.text, "ERROR on")
         = Cardinality(LinesOfKind(probe.input, "secret")
                         \ Stored(probe.input, probe.oc.store))
    /\ \A i \in LinesOfKind(probe.input, "secret") \ Stored(probe.input, probe.oc.store) :
          Contains(probe.out.text, <<"ERROR on">> \o probe.input[i].key \o <<": ">>)

\* A file with three secrets: create succeeds for one, versions add for
\* another, and both fail for the third.
C21_Witness ==
  /\ probe.tool = "push_secrets"
  /\ ~probe.oc.fail
  /\ \E i, j, k \in LinesOfKind(probe.input, "secret") :
        /\ probe.oc.store[i] = "created"
        /\ probe.oc.store[j] = "added"
        /\ probe.oc.store[k] = "failed"
  /\ Len(probe.out.ops) = 5

\* C12: for every secrets file and every pattern of outcomes of the secret
\* store, push_secrets asks the store to create every assignment with a
\* non-empty key and value, once and in the order of the file, whatever
\* happened on the lines before; blank lines, comments and lines without "="
\* leave no trace; every assignment with an empty key or value is reported as
\* SKIPPED; and the reference string is K=K:latest for exactly the keys the
\* store has taken.
C12_PushNeverAborts ==
  (probe.tool = "push_secrets" /\ ~probe.oc.fail) =>
    /\ probe.out.kind = "return"
    /\ DOMAIN probe.oc.store = LinesOfKind(probe.input, "secret")
    /\ PushedOf(probe.input, probe.out.text, probe.oc.store, probe.out.ops)

\* The file A=.. / B= / # note / C=.., with the store failing on A and
\* taking C.
C12_Witness ==
  /\ probe.tool = "push_secrets"
  /\ ~probe.oc.fail
  /\ probe.input = ScenarioFile
  /\ probe.oc.store[1] = "failed"
  /\ probe.oc.store[4] = "created"
  /\ LastLine(probe.out.text)
       = <<"Use in gcloud run deploy:", "--set-secrets=", "C", "=", "C", ":latest">>

\* C13: the text push_secrets returns is the same for a secrets file and for
\* the file with one or several of its values changed into other non-empty
\* values, the secret store doing the same for both.
C13_TextIndependentOfValues ==
  probe.tool = "push_secrets" =>
    \A map \in Revaluations : probe.twins[map] = probe.out.text

\* A file with two secrets, one taken and one refused by the store.
C13_Witness ==
  /\ probe.tool = "push_secrets"
  /\ ~probe.oc.fail
  /\ \E i, j \in LinesOfKind(probe.input, "secret") :
        /\ probe.input[i].value # probe.input[j].value
        /\ probe.oc.store[i] = "added"
        /\ probe.oc.store[j] = "failed"

\* C14 (as claimed): when push_secrets has pushed every assignment of the
\* secrets file, the file is gone from disk.  The code keeps the file and
\* says so in its result ("File kept at").
C14_EnvFileDeleted ==
  ( /\ probe.tool = "push_secrets"
    /\ ~probe.oc.fail
    /\ LinesOfKind(probe.input, "secret") # {}
    /\ LinesOfKind(probe.input, "skip") = {}
    /\ Stored(probe.input, probe.oc.store) = LinesOfKind(probe.input, "secret") )
  => ~IsFile(fs, EnvFile)

\* The line of the listing of path for the entry e.
EntryLine(e, path, isdir) ==
  <<IF isdir THEN "DIR " ELSE "FILE", "  ">> \o SubSeq(e.path, Len(path) + 2, Len(e.path))

\* e lies below path; directly below it when direct is asked for.
Below(e, path, direct) ==
  /\ Len(e.path) > Len(path) + 1
  /\ SubSeq(e.path, 1, Len(path) + 1) = path \o <<"/">>
  /\ direct => \A i \in (Len(path) + 2)..Len(e.path) : e.path[i] # "/"

\* The lines a listing of path may hold: one for every entry of the tree
\* below path that is not hidden.
AllowedLines(files, dirs, path, direct) ==
  { EntryLine(e, path, FALSE) : e \in { f \in files : ~f.hidden /\ Below(f, path, direct) } }
  \cup { EntryLine(e, path, TRUE) : e \in { d \in dirs : ~d.hidden /\ Below(d, path, direct) } }

ListingLines(text) == { SplitLines(text)[i] : i \in 1..Len(SplitLines(text)) }

IsListing(out) ==
  out.kind = "return" /\ ~StartsWith(out.text, "ERROR:") /\ out.text # <<"(empty)">>

\* C16 (as claimed): in both modes the listing of a directory holds no entry
\* that is or lies under a directory of SKIP_DIRS, none with an extension of
\* SKIP_EXTENSIONS and no dot-file outside the allow-list, and without
\* recursive only direct children of the path.  The code applies the
\* extension and the dot-file filter in recursive mode only, and without
\* recursive it looks at the name of the child alone.
C16_ListingFiltered ==
  (probe.tool = "list_directory" /\ IsListing(probe.out)) =>
    ListingLines(probe.out.text)
      \subseteq AllowedLines(probe.input, TreeDirs, probe.path, ~probe.recursive)

\* The part of a TRUNCATED result after its header and the empty line.
ContentPart(text) == SubSeq(text, 5, Len(text))

\* C17 (as claimed): read_file on a readable file of more than
\* MAX_FILE_BYTES bytes returns a text that begins with "TRUNCATED:" and whose
\* content part is at most MAX_FILE_BYTES bytes long in UTF-8, whatever
\* characters the file holds.  The code cuts the decoded text after
\* MAX_FILE_BYTES characters, which are up to four bytes each.
C17_TruncatedToBytes ==
  ( /\ probe.tool = "read_file"
    /\ probe.out.kind = "return"
    /\ Bytes(probe.input) > MAX_FILE_BYTES )
  => /\ StartsWith(probe.out.text, "TRUNCATED:")
     /\ Bytes(ContentPart(probe.out.text)) <= MAX_FILE_BYTES

====
